---- MODULE Spec2Model ----
(***************************************************************************)
(* Model of axum-browser-adapter (src/src/lib.rs): the two conversions     *)
(* wasm_request_to_axum_request and axum_response_to_wasm_response, with   *)
(* the parsers of the http crate they call modelled by what they do.       *)
(*                                                                         *)
(* Text on the request side (method, url, header names and values) is a    *)
(* sequence of one-character strings.  Bytes are numbers 0..255 and        *)
(* decoded text is a sequence of code points, so that encoding and         *)
(* decoding are real conversions.                                          *)
(***************************************************************************)
EXTENDS Integers, Sequences, FiniteSets, TLC

VARIABLES
    wasm_request,    \* the WasmRequest handed to wasm_request_to_axum_request
    request_result,  \* what wasm_request_to_axum_request returned
    response,        \* the axum Response handed to axum_response_to_wasm_response
    body_pos,        \* number of frames already taken from response's body stream
    pc,              \* position of the async fn axum_response_to_wasm_response
    status_code,     \* its local status_code
    headers,         \* its local headers (a HashMap: a function on its keys)
    response_result  \* what axum_response_to_wasm_response returned

vars == <<wasm_request, request_result, response, body_pos, pc, status_code,
          headers, response_result>>

request_vars == <<wasm_request, request_result>>
response_vars == <<response, body_pos, pc, status_code, headers, response_result>>

---------------------------------------------------------------------------
(* Bounds of the model. *)

MaxUrlLen == 2
MaxHeaders == 2
MaxRespHeaders == 2
MaxChunks == 2

---------------------------------------------------------------------------
(* Generic helpers. *)

SeqsUpTo(S, n) == UNION {[1..k -> S] : k \in 0..n}

Orders(S) == {o \in [1..Cardinality(S) -> S] : \A i, j \in DOMAIN o : o[i] = o[j] => i = j}

RECURSIVE Concat(_)
Concat(ss) == IF ss = <<>> THEN <<>> ELSE Head(ss) \o Concat(Tail(ss))

\* The multiset of the elements of a sequence, as a function element -> count.
BagOf(s) == [e \in {s[i] : i \in DOMAIN s} |-> Cardinality({i \in DOMAIN s : s[i] = e})]

None == [tag |-> "None"]
Some(v) == [tag |-> "Some", value |-> v]
Ok(v) == [tag |-> "Ok", value |-> v]
Err(kind) == [tag |-> "Err", error |-> kind]
NotCalled == [tag |-> "NotCalled"]

---------------------------------------------------------------------------
(* Character classes of the http crate's parsers. *)

UpperAlpha == <<"A","B","C","D","E","F","G","H","I","J","K","L","M",
                "N","O","P","Q","R","S","T","U","V","W","X","Y","Z">>
LowerAlpha == <<"a","b","c","d","e","f","g","h","i","j","k","l","m",
                "n","o","p","q","r","s","t","u","v","w","x","y","z">>
Digits == {"0","1","2","3","4","5","6","7","8","9"}
Uppers == {UpperAlpha[i] : i \in DOMAIN UpperAlpha}
Lowers == {LowerAlpha[i] : i \in DOMAIN LowerAlpha}
\* (the grave accent, also a token character, cannot be written in a string here)
TokenPunct == {"!","#","$","%","&","'","*","+","-",".","^","_","|","~"}

\* A token character: what Method and HeaderName accept.
TokenChars == Uppers \cup Lowers \cup Digits \cup TokenPunct

ToLower(c) == IF c \in Uppers
              THEN LowerAlpha[CHOOSE i \in DOMAIN UpperAlpha : UpperAlpha[i] = c]
              ELSE c

\* Characters of a header value that are neither visible ASCII nor tab.
ControlChars == {"\n", "\r"}

\* Characters PathAndQuery accepts in a path (those the model draws from).
PathChars == Uppers \cup Lowers \cup Digits \cup {"/", "-", ".", "_", "~", "*"}

---------------------------------------------------------------------------
(* UTF-8, for code points below 2048 (one- and two-byte forms). *)

EncodeChar(cp) == IF cp < 128 THEN <<cp>>
                  ELSE <<192 + (cp \div 64), 128 + (cp % 64)>>

RECURSIVE Utf8Encode(_)
Utf8Encode(text) == IF text = <<>> THEN <<>>
                    ELSE EncodeChar(Head(text)) \o Utf8Encode(Tail(text))

IsContinuation(b) == b >= 128 /\ b <= 191

\* String::from_utf8: Ok(text) or Err.  Lead bytes of three- and four-byte
\* forms are outside the byte alphabet of the model and are not decoded.
RECURSIVE Utf8Decode(_)
Utf8Decode(bytes) ==
    IF bytes = <<>> THEN Ok(<<>>)
    ELSE IF Head(bytes) < 128
    THEN LET rest == Utf8Decode(Tail(bytes)) IN
         IF rest.tag = "Err" THEN rest ELSE Ok(<<Head(bytes)>> \o rest.value)
    ELSE IF Head(bytes) >= 194 /\ Head(bytes) <= 223 /\ Len(bytes) >= 2
            /\ IsContinuation(bytes[2])
    THEN LET rest == Utf8Decode(Tail(Tail(bytes))) IN
         IF rest.tag = "Err" THEN rest
         ELSE Ok(<<(Head(bytes) - 192) * 64 + (bytes[2] - 128)>> \o rest.value)
    ELSE Err("FromUtf8Error")

Utf8Valid(bytes) == Utf8Decode(bytes).tag = "Ok"

---------------------------------------------------------------------------
(* Request side: the parsers called by wasm_request_to_axum_request. *)

\* The methods Method::from_bytes recognises by name; every other legal
\* token becomes an extension method.
StandardMethods == {<<"G","E","T">>, <<"P","U","T">>, <<"P","O","S","T">>,
                    <<"H","E","A","D">>, <<"P","A","T","C","H">>,
                    <<"T","R","A","C","E">>, <<"D","E","L","E","T","E">>,
                    <<"O","P","T","I","O","N","S">>,
                    <<"C","O","N","N","E","C","T">>}

IsToken(s) == s # <<>> /\ \A i \in DOMAIN s : s[i] \in TokenChars

\* Method::from_str: a standard method, or an extension method for any other
\* non-empty string of token characters; InvalidMethod otherwise.
MethodFromStr(s) ==
    IF s \in StandardMethods THEN Ok([kind |-> "Standard", name |-> s])
    ELSE IF IsToken(s) THEN Ok([kind |-> "Extension", name |-> s])
    ELSE Err("InvalidMethod")

\* Method::as_str
MethodAsStr(m) == m.name

\* Index of the first "#" of s, or Len(s) + 1.
FragmentStart(s) ==
    IF \E i \in DOMAIN s : s[i] = "#"
    THEN CHOOSE i \in DOMAIN s : s[i] = "#" /\ \A j \in 1..(i - 1) : s[j] # "#"
    ELSE Len(s) + 1

\* PathAndQuery::from_shared: the characters up to the first "#" must be
\* path characters; the fragment is cut off and not examined.
PathAndQueryFromShared(s) ==
    LET end == FragmentStart(s) IN
    IF \A i \in 1..(end - 1) : s[i] \in PathChars
    THEN Ok(SubSeq(s, 1, end - 1))
    ELSE Err("InvalidUri")

\* Authority::parse: the index where the authority ends (at "/" or "#", or
\* the length), or an error on a character no URI may hold.
AuthorityParse(s) ==
    LET stops == {i \in DOMAIN s : s[i] \in {"/", "#"}}
        end == IF stops = {} THEN Len(s)
               ELSE (CHOOSE i \in stops : \A j \in stops : i <= j) - 1
    IN  IF \A i \in 1..end : s[i] \in PathChars \ {"/"}
        THEN Ok(end) ELSE Err("InvalidUri")

\* Uri::try_from(&String), for strings without ":", "?", "@" and "[".
UriTryFrom(s) ==
    IF s = <<>> THEN Err("InvalidUri")
    ELSE IF s = <<"/">> \/ s = <<"*">>
    THEN Ok([authority |-> <<>>, path_and_query |-> s])
    ELSE IF Head(s) = "/"
    THEN LET pq == PathAndQueryFromShared(s) IN
         IF pq.tag = "Err" THEN pq
         ELSE Ok([authority |-> <<>>, path_and_query |-> pq.value])
    ELSE LET a == AuthorityParse(s) IN
         IF a.tag = "Err" THEN a
         ELSE IF a.value # Len(s) THEN Err("InvalidUri")
         ELSE Ok([authority |-> s, path_and_query |-> <<>>])

\* Display for Uri (no scheme in the modelled strings).
UriToString(u) == u.authority \o u.path_and_query

\* HeaderName::from_bytes: a non-empty string of token characters, stored
\* in lower case.
HeaderNameFromBytes(k) ==
    IF IsToken(k) THEN Ok([i \in DOMAIN k |-> ToLower(k[i])])
    ELSE Err("InvalidHeaderName")

\* HeaderValue::from_str: no control character other than tab.
HeaderValueFromStr(v) ==
    IF \A i \in DOMAIN v : v[i] \notin ControlChars THEN Ok(v)
    ELSE Err("InvalidHeaderValue")

\* Variant of the loop that skips an illegal header and goes on.
AddHeadersSkipInvalid(hdrs, order) ==
    LET RECURSIVE Loop(_, _)
        Loop(i, acc) ==
            IF i > Len(order) THEN Ok(acc)
            ELSE LET k == order[i]
                     header_name == HeaderNameFromBytes(k)
                     header_value == HeaderValueFromStr(hdrs[k])
                 IN  IF header_name.tag = "Err" \/ header_value.tag = "Err"
                     THEN Loop(i + 1, acc)
                     ELSE Loop(i + 1, Append(acc, [name |-> header_name.value,
                                                   value |-> header_value.value]))
    IN  Loop(1, <<>>)

\* The loop over wasm_request.headers, visiting the keys in the order
\* `order` (a HashMap's iteration order is arbitrary): the headers appended
\* to the builder, or the first error.
AddHeaders(hdrs, order) ==
    LET RECURSIVE Loop(_, _)
        Loop(i, acc) ==
            IF i > Len(order) THEN Ok(acc)
            ELSE LET k == order[i]
                     header_name == HeaderNameFromBytes(k)
                     header_value == HeaderValueFromStr(hdrs[k])
                 IN  IF header_name.tag = "Err" THEN header_name
                     ELSE IF header_value.tag = "Err" THEN header_value
                     ELSE Loop(i + 1, Append(acc, [name |-> header_name.value,
                                                   value |-> header_value.value]))
    IN  Loop(1, <<>>)

\* Variant that attaches an empty payload whatever the body is.
RequestBodyAlwaysEmpty(body) == <<>>

\* The payload: Body::from(String) holds the text's UTF-8 bytes;
\* Body::empty() holds none.
RequestBody(body) ==
    IF body.tag = "Some" THEN Utf8Encode(body.value) ELSE <<>>

\* Variant that parses the url before the method.
ConvertRequestUriFirst(req, order) ==
    LET method == MethodFromStr(req.method)
        uri == UriTryFrom(req.url)
        added == AddHeaders(req.headers, order)
    IN  IF uri.tag = "Err" THEN uri
        ELSE IF method.tag = "Err" THEN method
        ELSE IF added.tag = "Err" THEN added
        ELSE Ok([method |-> method.value, uri |-> uri.value,
                 headers |-> added.value, body |-> RequestBody(req.body)])

\* wasm_request_to_axum_request, with the keys of the header map visited in
\* the order `order`.
ConvertRequest(req, order) ==
    LET method == MethodFromStr(req.method)
        uri == UriTryFrom(req.url)
        added == AddHeaders(req.headers, order)
    IN  IF method.tag = "Err" THEN method
        ELSE IF uri.tag = "Err" THEN uri
        ELSE IF added.tag = "Err" THEN added
        ELSE Ok([method |-> method.value, uri |-> uri.value,
                 headers |-> added.value, body |-> RequestBody(req.body)])

---------------------------------------------------------------------------
(* The requests the model draws from. *)

GET == <<"G","E","T">>
BOGUS == <<"B","O","G","U","S">>

Methods == {<<>>, GET, <<"P","O","S","T">>, BOGUS, <<"G"," ","T">>}

UrlChars == {"/", "a", "#", " "}
Urls == SeqsUpTo(UrlChars, MaxUrlLen)

HeaderNames == {<<"a">>, <<"A">>, <<>>, <<" ">>}
HeaderValues == {<<"x">>, <<"y">>, <<"\n">>}

HeaderMaps == UNION {[D -> HeaderValues] :
                     D \in {D \in SUBSET HeaderNames : Cardinality(D) <= MaxHeaders}}

\* Body texts, as code points: "", "hi" and one with a two-byte character.
Bodies == {None, Some(<<>>), Some(<<104, 105>>), Some(<<104, 233>>)}

WasmRequests == [method : Methods, url : Urls, headers : HeaderMaps, body : Bodies]

\* The axum Response the request-side specification leaves untouched.
IdleResponse == [status |-> 200, headers |-> <<>>, body |-> <<>>]

---------------------------------------------------------------------------
(* Request-side specification. *)

InitRequest ==
    /\ wasm_request \in WasmRequests
    /\ request_result = NotCalled
    /\ response = IdleResponse
    /\ body_pos = 0
    /\ pc = "idle"
    /\ status_code = ""
    /\ headers = <<>>
    /\ response_result = NotCalled

\* pub fn wasm_request_to_axum_request(wasm_request: &WasmRequest)
WasmRequestToAxumRequest ==
    /\ \E order \in Orders(DOMAIN wasm_request.headers) :
           request_result' = ConvertRequest(wasm_request, order)
    /\ UNCHANGED wasm_request
    /\ UNCHANGED response_vars

NextRequest == WasmRequestToAxumRequest

SpecRequest == InitRequest /\ [][NextRequest]_vars

---------------------------------------------------------------------------
(* Request-side properties. *)

RequestCalled == request_result.tag # "NotCalled"

LowerStr(k) == [i \in DOMAIN k |-> ToLower(k[i])]

LegalName(k) == k # <<>> /\ \A i \in DOMAIN k : k[i] \in TokenChars
LegalValue(v) == \A i \in DOMAIN v : v[i] \notin {"\n", "\r"}
LegalMethod(m) == m # <<>> /\ \A i \in DOMAIN m : m[i] \in TokenChars
WellFormedUrl(u) == UriTryFrom(u).tag = "Ok"

AllHeadersLegal(req) ==
    \A k \in DOMAIN req.headers : LegalName(k) /\ LegalValue(req.headers[k])

ValidRequest(req) ==
    LegalMethod(req.method) /\ WellFormedUrl(req.url) /\ AllHeadersLegal(req)

\* The header pairs of the input, exactly as given, as a multiset.
InputPairs(hdrs) ==
    [p \in {[name |-> k, value |-> hdrs[k]] : k \in DOMAIN hdrs} |-> 1]

\* The header pairs of the input with lower-cased names, as a multiset.
LoweredPairs(hdrs) ==
    LET Lowered(k) == [name |-> LowerStr(k), value |-> hdrs[k]] IN
    [p \in {Lowered(k) : k \in DOMAIN hdrs} |->
        Cardinality({k \in DOMAIN hdrs : Lowered(k) = p})]

WithoutFragment(u) == SubSeq(u, 1, FragmentStart(u) - 1)

ExpectedPayload(body) == IF body.tag = "Some" THEN Utf8Encode(body.value) ELSE <<>>

\* C1 as stated: for every valid request the conversion succeeds and the
\* framework request has the same method, the same URI text, exactly the
\* input's header pairs and the body text (or an empty payload).
C1_RoundTripExact ==
    (RequestCalled /\ ValidRequest(wasm_request)) =>
        /\ request_result.tag = "Ok"
        /\ MethodAsStr(request_result.value.method) = wasm_request.method
        /\ UriToString(request_result.value.uri) = wasm_request.url
        /\ BagOf(request_result.value.headers) = InputPairs(wasm_request.headers)
        /\ request_result.value.body = ExpectedPayload(wasm_request.body)

\* C1 amended: for every valid request the conversion succeeds and the
\* framework request has the same method, the URI of url without its
\* "#fragment", the input's header pairs with their names in lower case
\* (every pair present, none added) and the UTF-8 bytes of the body text, or
\* an empty payload when the body is absent.
C1_RoundTrip ==
    (RequestCalled /\ ValidRequest(wasm_request)) =>
        /\ request_result.tag = "Ok"
        /\ MethodAsStr(request_result.value.method) = wasm_request.method
        /\ UriToString(request_result.value.uri) = WithoutFragment(wasm_request.url)
        /\ BagOf(request_result.value.headers) = LoweredPairs(wasm_request.headers)
        /\ request_result.value.body = ExpectedPayload(wasm_request.body)

\* A valid request with a body of two characters, one of them two bytes
\* long, and an upper-case header name, converted.
C1_Witness ==
    /\ request_result.tag = "Ok"
    /\ wasm_request.method = GET
    /\ wasm_request.url = <<"/", "a">>
    /\ wasm_request.headers = [k \in {<<"A">>} |-> <<"x">>]
    /\ wasm_request.body = Some(<<104, 233>>)
    /\ request_result.value.body = <<104, 195, 169>>

\* C4 as stated: every method string that is not one of the recognised
\* HTTP methods makes the conversion fail with InvalidMethod.
C4_UnrecognisedMethodFails ==
    (RequestCalled /\ wasm_request.method \notin StandardMethods) =>
        request_result = Err("InvalidMethod")

\* C4 amended: every method string that is not a legal method token (it is
\* empty or holds a character that is not a token character) makes the
\* conversion fail with InvalidMethod and produce no request, whatever the
\* url, the headers and the body are, also when they are invalid too.
C4_IllegalMethodFails ==
    (RequestCalled /\ ~LegalMethod(wasm_request.method)) =>
        request_result = Err("InvalidMethod")

\* An illegal method together with a malformed url and an illegal header.
C4_Witness ==
    /\ request_result = Err("InvalidMethod")
    /\ wasm_request.method = <<"G", " ", "T">>
    /\ ~WellFormedUrl(wasm_request.url)
    /\ ~AllHeadersLegal(wasm_request)

\* C5: with a valid method and url, a call of the conversion either returns
\* a request carrying every header pair of the input (names compared as
\* header names are, without regard to case) and no other, or, when some
\* name or value is illegal, an InvalidHeader failure and no request; and
\* the input record is unchanged by the call.
C5_AllOrNothing ==
    [][ (LegalMethod(wasm_request.method) /\ WellFormedUrl(wasm_request.url)) =>
          /\ wasm_request' = wasm_request
          /\ request_result'.tag \in {"Ok", "Err"}
          /\ request_result'.tag = "Ok" =>
                /\ AllHeadersLegal(wasm_request)
                /\ BagOf(request_result'.value.headers)
                       = LoweredPairs(wasm_request.headers)
          /\ request_result'.tag = "Err" =>
                /\ ~AllHeadersLegal(wasm_request)
                /\ request_result'.error \in {"InvalidHeaderName", "InvalidHeaderValue"}
      ]_vars

\* A request with one legal and one illegal header, refused.
C5_Witness ==
    /\ request_result.tag = "Err"
    /\ request_result.error = "InvalidHeaderValue"
    /\ wasm_request.method = GET
    /\ wasm_request.url = <<"/">>
    /\ wasm_request.headers = [k \in {<<"a">>, <<"A">>} |->
                                  IF k = <<"a">> THEN <<"x">> ELSE <<"\n">>]

---------------------------------------------------------------------------
(* Response side: what axum_response_to_wasm_response calls. *)

\* StatusCode::canonical_reason, for the codes the model uses and a few more.
CanonicalReason(code) ==
    CASE code = 200 -> "OK"
      [] code = 201 -> "Created"
      [] code = 204 -> "No Content"
      [] code = 400 -> "Bad Request"
      [] code = 404 -> "Not Found"
      [] code = 500 -> "Internal Server Error"
      [] OTHER -> "<unknown status code>"

\* response.status().to_string(): Display for StatusCode writes the number,
\* a space and the canonical reason.
StatusToString(code) == ToString(code) \o " " \o CanonicalReason(code)

IsVisibleAscii(b) == (b >= 32 /\ b < 127) \/ b = 9

\* Variant that accepts every value that is valid UTF-8.
ToStrUtf8(value) == Utf8Decode(value)

\* HeaderValue::to_str: the value as text when every byte is visible ASCII
\* or tab, an error otherwise.
ToStr(value) ==
    IF \A i \in DOMAIN value : IsVisibleAscii(value[i])
    THEN Ok(value) ELSE Err("ToStrError")

\* Variant that keeps the value already stored under the key.
InsertKeepFirst(map, k, v) ==
    IF k \in DOMAIN map THEN map
    ELSE [x \in DOMAIN map \cup {k} |-> IF x = k THEN v ELSE map[x]]

\* HashMap::insert: the new value replaces the one stored under the key.
Insert(map, k, v) ==
    [x \in DOMAIN map \cup {k} |-> IF x = k THEN v ELSE map[x]]

\* The loop over response.headers(): every value to_str accepts is inserted
\* under its name, the others are skipped.
RECURSIVE CollectHeaders(_, _)
CollectHeaders(hs, map) ==
    IF hs = <<>> THEN map
    ELSE LET value_str == ToStr(Head(hs).value) IN
         CollectHeaders(Tail(hs),
                        IF value_str.tag = "Ok"
                        THEN Insert(map, Head(hs).name, value_str.value)
                        ELSE map)

\* http_body::Body::data on a stream of which `pos` frames were taken: the
\* next frame, or None at the end of the stream.
BodyData(frames, pos) ==
    IF pos < Len(frames) THEN Some(frames[pos + 1]) ELSE None

\* The match on the polled frame: its bytes, or no bytes at the end of the
\* stream and on an error of the stream.
ReadBytes(data) ==
    IF data.tag = "None" THEN <<>>
    ELSE IF data.value.tag = "Ok" THEN data.value.value
    ELSE <<>>

\* Variant that gives an absent body for empty text.
FinishNoneWhenEmpty(code_str, hdrs, bytes) ==
    LET body_str == Utf8Decode(bytes) IN
    IF body_str.tag = "Err" THEN Err("FromUtf8Error")
    ELSE Ok([status_code |-> code_str, headers |-> hdrs,
             body |-> IF body_str.value = <<>> THEN None ELSE Some(body_str.value)])

\* Variant that decodes lossily instead of failing.
FinishLossy(code_str, hdrs, bytes) ==
    LET body_str == Utf8Decode(bytes) IN
    Ok([status_code |-> code_str, headers |-> hdrs,
        body |-> IF body_str.tag = "Err" THEN Some(<<65533>>) ELSE Some(body_str.value)])

\* String::from_utf8(bytes)? and the WasmResponse built from it.
Finish(code_str, hdrs, bytes) ==
    LET body_str == Utf8Decode(bytes) IN
    IF body_str.tag = "Err" THEN Err("FromUtf8Error")
    ELSE Ok([status_code |-> code_str, headers |-> hdrs,
             body |-> Some(body_str.value)])

---------------------------------------------------------------------------
(* The responses the model draws from. *)

Statuses == {200, 299, 404}

RespHeaderNames == {"content-type", "set-cookie"}

\* Header values, as bytes: "x", "y", a two-byte UTF-8 character, and a
\* byte no UTF-8 text holds.
RespHeaderValues == {<<120>>, <<121>>, <<195, 169>>, <<255>>}

\* A HeaderMap iterates the values of one name together.
Grouped(hs) ==
    \A i, j \in DOMAIN hs :
        (i < j /\ hs[i].name = hs[j].name) =>
            \A k \in i..j : hs[k].name = hs[i].name

HeaderLists ==
    {hs \in SeqsUpTo([name : RespHeaderNames, value : RespHeaderValues],
                     MaxRespHeaders) : Grouped(hs)}

\* Frames of a body stream: an empty chunk, the chunk "h", the two halves
\* of a two-byte character, and an error of the stream.
Frames == {Ok(<<>>), Ok(<<104>>), Ok(<<195>>), Ok(<<169>>), Err("BodyError")}

Responses == [status : Statuses, headers : HeaderLists,
              body : SeqsUpTo(Frames, MaxChunks)]

\* The WasmRequest the response-side specification leaves untouched.
IdleRequest == [method |-> GET, url |-> <<"/">>, headers |-> <<>>, body |-> None]

---------------------------------------------------------------------------
(* Response-side specification. *)

InitResponse ==
    /\ wasm_request = IdleRequest
    /\ request_result = NotCalled
    /\ response \in Responses
    /\ body_pos = 0
    /\ pc = "start"
    /\ status_code = ""
    /\ headers = <<>>
    /\ response_result = NotCalled

\* axum_response_to_wasm_response up to the await: the status string and
\* the header map.
AxumResponseBegin ==
    /\ pc = "start"
    /\ status_code' = StatusToString(response.status)
    /\ headers' = CollectHeaders(response.headers, <<>>)
    /\ pc' = "await_data"
    /\ UNCHANGED <<response, body_pos, response_result>>
    /\ UNCHANGED request_vars

\* axum_response_to_wasm_response from the await on: the one poll of the
\* body stream, the decoding and the result.
AxumResponseResume ==
    /\ pc = "await_data"
    /\ LET data == BodyData(response.body, body_pos)
           bytes == ReadBytes(data)
       IN  /\ body_pos' = IF data.tag = "Some" THEN body_pos + 1 ELSE body_pos
           /\ response_result' = Finish(status_code, headers, bytes)
    /\ pc' = "done"
    /\ UNCHANGED <<response, status_code, headers>>
    /\ UNCHANGED request_vars

NextResponse == AxumResponseBegin \/ AxumResponseResume

SpecResponse == InitResponse /\ [][NextResponse]_vars

---------------------------------------------------------------------------
(* Response-side properties. *)

Done == pc = "done"

AllChunks(frames) == \A i \in DOMAIN frames : frames[i].tag = "Ok"

\* The bytes of all the chunks of a stream without errors.
WholeBody(frames) == Concat([i \in DOMAIN frames |-> frames[i].value])

\* The bytes the conversion took from the stream: the chunks among the
\* frames it polled.
TakenBytes ==
    Concat([i \in 1..body_pos |->
               IF response.body[i].tag = "Ok" THEN response.body[i].value ELSE <<>>])

DistinctNames(hs) == \A i, j \in DOMAIN hs : hs[i].name = hs[j].name => i = j

Names(hs) == {hs[i].name : i \in DOMAIN hs}

\* C2: when the stream yields chunks c1..cn and ends, the body of the
\* result is the text of c1 ++ ... ++ cn, all of them.
C2_BodyIsAllChunks ==
    (Done /\ AllChunks(response.body) /\ Utf8Valid(WholeBody(response.body))) =>
        /\ response_result.tag = "Ok"
        /\ response_result.value.body = Some(Utf8Decode(WholeBody(response.body)).value)

\* C3: for a response with valid-text headers and a valid-text body the
\* result has the status number as a string ("200"), the response's headers
\* and Some of the body text.
C3_ResponseFields ==
    (/\ Done
     /\ AllChunks(response.body)
     /\ Utf8Valid(WholeBody(response.body))
     /\ DistinctNames(response.headers)
     /\ \A i \in DOMAIN response.headers : Utf8Valid(response.headers[i].value)) =>
        /\ response_result.tag = "Ok"
        /\ response_result.value.status_code = ToString(response.status)
        /\ DOMAIN response_result.value.headers = Names(response.headers)
        /\ \A i \in DOMAIN response.headers :
               response_result.value.headers[response.headers[i].name]
                   = Utf8Decode(response.headers[i].value).value
        /\ response_result.value.body = Some(Utf8Decode(WholeBody(response.body)).value)

\* The conversion fails only on the bytes it took from the body, never on
\* a header.
FailsOnlyOnBody ==
    Done => (response_result.tag = "Err" <=> ~Utf8Valid(TakenBytes))

\* C6 as stated: with distinct header names, the output map holds every
\* header whose value is valid UTF-8 text, unchanged, and omits exactly the
\* headers whose value is not; no header value makes the conversion fail.
C6_ValidUtf8HeadersKept ==
    (Done /\ DistinctNames(response.headers)) =>
        /\ FailsOnlyOnBody
        /\ response_result.tag = "Ok" =>
             \A i \in DOMAIN response.headers :
                LET h == response.headers[i] IN
                IF Utf8Valid(h.value)
                THEN /\ h.name \in DOMAIN response_result.value.headers
                     /\ response_result.value.headers[h.name] = Utf8Decode(h.value).value
                ELSE h.name \notin DOMAIN response_result.value.headers

\* C6 amended: with distinct header names, the output map holds every
\* header whose value holds only visible ASCII characters or tabs, with its
\* name and value unchanged, and omits exactly the headers whose value holds
\* any other byte (valid UTF-8 text outside ASCII included); no header
\* value makes the conversion fail.
C6_VisibleAsciiHeadersKept ==
    (Done /\ DistinctNames(response.headers)) =>
        /\ FailsOnlyOnBody
        /\ response_result.tag = "Ok" =>
             \A i \in DOMAIN response.headers :
                LET h == response.headers[i] IN
                IF \A j \in DOMAIN h.value : h.value[j] \in (32..126) \cup {9}
                THEN /\ h.name \in DOMAIN response_result.value.headers
                     /\ response_result.value.headers[h.name] = h.value
                ELSE h.name \notin DOMAIN response_result.value.headers

\* One header kept, one with a two-byte UTF-8 character dropped, success.
C6_Witness ==
    /\ Done
    /\ response.headers = <<[name |-> "content-type", value |-> <<120>>],
                            [name |-> "set-cookie", value |-> <<195, 169>>]>>
    /\ response_result.tag = "Ok"
    /\ DOMAIN response_result.value.headers = {"content-type"}

\* C7: a successful conversion always has a present body, and a stream that
\* ends without a chunk converts successfully to the body Some("").
C7_BodyAlwaysPresent ==
    Done =>
        /\ response_result.tag = "Ok" => response_result.value.body.tag = "Some"
        /\ response.body = <<>> =>
              /\ response_result.tag = "Ok"
              /\ response_result.value.body = Some(<<>>)

\* A stream without any chunk, converted.
C7_Witness ==
    /\ Done
    /\ response.body = <<>>
    /\ response_result.tag = "Ok"
    /\ response_result.value.body = Some(<<>>)

\* C8: when the bytes taken from the body are not valid UTF-8 text the
\* conversion fails with the decoding error and returns no WasmResponse,
\* whatever the status and the headers are.
C8_InvalidBodyFails ==
    (Done /\ ~Utf8Valid(TakenBytes)) => response_result = Err("FromUtf8Error")

\* A body whose bytes stop in the middle of a character, refused.
C8_Witness ==
    /\ Done
    /\ response.body = <<Ok(<<195>>)>>
    /\ response.status = 404
    /\ response.headers # <<>>
    /\ response_result = Err("FromUtf8Error")

\* C9: a failure reported by the body stream while it is read is surfaced
\* as a failure result.
C9_StreamErrorSurfaced ==
    (Done /\ \E i \in 1..body_pos : response.body[i].tag = "Err") =>
        response_result.tag = "Err"

\* The last value of header `name` that to_str accepts, in iteration order.
LastDecodable(hs, name) ==
    LET idx == {i \in DOMAIN hs : hs[i].name = name
                                  /\ \A j \in DOMAIN hs[i].value :
                                        hs[i].value[j] \in (32..126) \cup {9}}
    IN  hs[CHOOSE i \in idx : \A j \in idx : j <= i].value

HasDecodable(hs, name) ==
    \E i \in DOMAIN hs : /\ hs[i].name = name
                         /\ \A j \in DOMAIN hs[i].value :
                               hs[i].value[j] \in (32..126) \cup {9}

\* C10: the output map holds one value per name: for every name with a
\* decodable value it holds the last decodable value in iteration order,
\* the earlier ones are lost, and the conversion does not fail for it.
C10_LastValueWins ==
    Done =>
        /\ FailsOnlyOnBody
        /\ response_result.tag = "Ok" =>
             /\ DOMAIN response_result.value.headers
                    = {n \in Names(response.headers) : HasDecodable(response.headers, n)}
             /\ \A n \in DOMAIN response_result.value.headers :
                    response_result.value.headers[n] = LastDecodable(response.headers, n)

\* Two values under set-cookie: the second one is kept.
C10_Witness ==
    /\ Done
    /\ response.headers = <<[name |-> "set-cookie", value |-> <<120>>],
                            [name |-> "set-cookie", value |-> <<121>>]>>
    /\ response_result.tag = "Ok"
    /\ response_result.value.headers = [n \in {"set-cookie"} |-> <<121>>]

====
